---- MODULE Spec2Model ----
(***************************************************************************)
(* BHAVNA emotion analysis API: the text normaliser (backend/utils.py),    *)
(* the emotion scorer and confidence estimator (backend/model.py) and the  *)
(* POST /api/analyze handler (backend/app.py).                             *)
(*                                                                         *)
(* Representation.                                                         *)
(*  - A text is a sequence of one-character strings.                       *)
(*  - A sentiment signal (compound, pos, neg, neu, polarity, subjectivity) *)
(*    is an integer number of hundredths: 0.05 is 5, -0.3 is -30, 1.0 is   *)
(*    Unit.                                                                *)
(*  - A raw emotion score is an integer number of 1/RawDen: with signals   *)
(*    in hundredths, pos*0.7 + (polarity+1)/2*0.3 is                       *)
(*    (14*pos + 3*(polarity+Unit)) / (20*Unit), exactly.                   *)
(*  - A normalised score is [n |-> numerator, d |-> denominator, e |-> s]:  *)
(*    the exact fraction n/d (d > 0, lowest terms) and the sign s of the   *)
(*    floating point error of the value the source computed for it.  The   *)
(*    source works in binary floating point, so two scores whose exact     *)
(*    values are equal, or a score whose exact value is the boost          *)
(*    threshold 0.7, may compare either way there; e records which.  The   *)
(*    confidence is the exact fraction [n, d], and a rounding to two       *)
(*    decimals that falls exactly between two hundredths may go either way *)
(*    (Round2).                                                            *)
(***************************************************************************)
EXTENDS Integers, Sequences, FiniteSets

VARIABLES
    op,           \* the operation that produced the current state
    request,      \* the body of the POST /api/analyze request being answered
    response,     \* the HTTP response of the handler
    called,       \* TRUE iff analyzer.analyze was invoked by the handler
    text,         \* the raw text given to preprocess_text
    processed,    \* preprocess_text(text)
    reprocessed,  \* preprocess_text(processed)
    signals,      \* what the sentiment sources returned for the processed text
    raw,          \* the five scores before normalisation
    scores,       \* the five scores returned by _calculate_emotion_scores
    confidence,   \* the value returned by _calculate_confidence
    result        \* the dict returned by analyze

vars == <<op, request, response, called, text, processed, reprocessed,
          signals, raw, scores, confidence, result>>

(***************************************************************************)
(* Bounds of the model.                                                    *)
(***************************************************************************)
\* A short input text is a concatenation of at most MaxPieces fragments.
MaxPieces == 4
\* A short request text is a concatenation of at most MaxBodyPieces fragments.
MaxBodyPieces == 3

(***************************************************************************)
(* Texts.                                                                  *)
(***************************************************************************)
Fragments ==
    { <<"h", "t", "t", "p">>, <<"w", "w", "w">>, <<"W", "w", "w">>, <<"s">>,
      <<"@">>, <<" ">>, <<"\n">>, <<"a">> }

RECURSIVE Concats(_)
Concats(n) ==
    IF n = 0 THEN { <<>> }
    ELSE { <<>> } \cup { f \o t : f \in Fragments, t \in Concats(n - 1) }

ShortTexts == Concats(MaxPieces)

\* str.isspace / the regular expression class \s, on the model's alphabet
IsSpace(c) == c \in {" ", "\n"}

\* str.lower, character by character, on the model's alphabet
LowerChar(c) == IF c = "W" THEN "w" ELSE c

Lower(s) == [i \in 1..Len(s) |-> LowerChar(s[i])]

NonSpaceAt(s, i) == i >= 1 /\ i <= Len(s) /\ ~IsSpace(s[i])

\* the literal w occurs in s at position i
HasAt(s, i, w) ==
    /\ i + Len(w) - 1 <= Len(s)
    /\ \A k \in 1..Len(w) : s[i + k - 1] = w[k]

\* r'http\S+|www\S+|https\S+' matches at position i
UrlAt(s, i) ==
    \/ HasAt(s, i, <<"h", "t", "t", "p">>) /\ NonSpaceAt(s, i + 4)
    \/ HasAt(s, i, <<"w", "w", "w">>) /\ NonSpaceAt(s, i + 3)
    \/ HasAt(s, i, <<"h", "t", "t", "p", "s">>) /\ NonSpaceAt(s, i + 5)

\* r'\S+@\S+' matches at position i: an "@" later in the same run of
\* non-space characters, with a non-space character after it
EmailAt(s, i) ==
    /\ NonSpaceAt(s, i)
    /\ \E j \in (i + 1)..(Len(s) - 1) :
          /\ s[j] = "@"
          /\ NonSpaceAt(s, j + 1)
          /\ \A k \in i..j : NonSpaceAt(s, k)

(***************************************************************************)
(* re.sub(pattern, '', s) scans s from left to right.  Where the pattern   *)
(* matches, the match is dropped and the scan goes on after it; elsewhere  *)
(* the character is kept.  Both patterns end in a greedy \S+, so a match   *)
(* runs to the end of the run of non-space characters it starts in: the    *)
(* scanner state is the output so far and whether it is inside a match.    *)
(* The scan of positions lo..hi is split in halves, the left half first,   *)
(* which keeps the evaluation depth logarithmic in the length of the text. *)
(***************************************************************************)
ScanStart == [out |-> <<>>, skip |-> FALSE]

UrlStep(s, st, i) ==
    IF st.skip /\ NonSpaceAt(s, i) THEN st
    ELSE IF UrlAt(s, i) THEN [out |-> st.out, skip |-> TRUE]
    ELSE [out |-> Append(st.out, s[i]), skip |-> FALSE]

RECURSIVE UrlScan(_, _, _, _)
UrlScan(s, st, lo, hi) ==
    IF lo > hi THEN st
    ELSE IF lo = hi THEN UrlStep(s, st, lo)
    ELSE LET left == UrlScan(s, st, lo, (lo + hi) \div 2)
         IN  IF left.skip \in BOOLEAN
             THEN UrlScan(s, left, (lo + hi) \div 2 + 1, hi)
             ELSE left

\* re.sub(r'http\S+|www\S+|https\S+', '', s, flags=re.MULTILINE)
RemoveUrls(s) == UrlScan(s, ScanStart, 1, Len(s)).out

EmailStep(s, st, i) ==
    IF st.skip /\ NonSpaceAt(s, i) THEN st
    ELSE IF EmailAt(s, i) THEN [out |-> st.out, skip |-> TRUE]
    ELSE [out |-> Append(st.out, s[i]), skip |-> FALSE]

RECURSIVE EmailScan(_, _, _, _)
EmailScan(s, st, lo, hi) ==
    IF lo > hi THEN st
    ELSE IF lo = hi THEN EmailStep(s, st, lo)
    ELSE LET left == EmailScan(s, st, lo, (lo + hi) \div 2)
         IN  IF left.skip \in BOOLEAN
             THEN EmailScan(s, left, (lo + hi) \div 2 + 1, hi)
             ELSE left

\* re.sub(r'\S+@\S+', '', s)
RemoveEmails(s) == EmailScan(s, ScanStart, 1, Len(s)).out

\* re.sub(r'\s+', ' ', s): every maximal run of whitespace becomes one space;
\* skip is TRUE inside a run of whitespace already replaced
SpaceStep(s, st, i) ==
    IF ~IsSpace(s[i]) THEN [out |-> Append(st.out, s[i]), skip |-> FALSE]
    ELSE IF st.skip THEN st
    ELSE [out |-> Append(st.out, " "), skip |-> TRUE]

RECURSIVE SpaceScan(_, _, _, _)
SpaceScan(s, st, lo, hi) ==
    IF lo > hi THEN st
    ELSE IF lo = hi THEN SpaceStep(s, st, lo)
    ELSE LET left == SpaceScan(s, st, lo, (lo + hi) \div 2)
         IN  IF left.skip \in BOOLEAN
             THEN SpaceScan(s, left, (lo + hi) \div 2 + 1, hi)
             ELSE left

CollapseSpaces(s) == SpaceScan(s, ScanStart, 1, Len(s)).out

\* the first and the last position of a non-space character in lo..hi
\* (0 and 0 when there is none)
RECURSIVE Extent(_, _, _)
Extent(s, lo, hi) ==
    IF lo > hi THEN [first |-> 0, last |-> 0]
    ELSE IF lo = hi
         THEN IF IsSpace(s[lo]) THEN [first |-> 0, last |-> 0]
              ELSE [first |-> lo, last |-> lo]
    ELSE LET l == Extent(s, lo, (lo + hi) \div 2)
             r == Extent(s, (lo + hi) \div 2 + 1, hi)
         IN  [first |-> IF l.first # 0 THEN l.first ELSE r.first,
              last  |-> IF r.last # 0 THEN r.last ELSE l.last]

\* str.strip()
Strip(s) ==
    LET e == Extent(s, 1, Len(s))
    IN  IF e.first = 0 THEN <<>> ELSE SubSeq(s, e.first, e.last)

\* preprocess_text with the lowercasing moved to the end
preprocess_text_lower_last(t) ==
    Lower(Strip(CollapseSpaces(RemoveEmails(RemoveUrls(t)))))

\* utils.preprocess_text
preprocess_text(t) == Strip(CollapseSpaces(RemoveEmails(RemoveUrls(Lower(t)))))

(***************************************************************************)
(* Exact fractions.                                                        *)
(***************************************************************************)
RECURSIVE GCD(_, _)
GCD(a, b) == IF b = 0 THEN a ELSE GCD(b, a % b)

\* the fraction n/d (n >= 0, d > 0) in lowest terms
Frac(n, d) == [n |-> n \div GCD(n, d), d |-> d \div GCD(n, d)]

FEq(a, b) == a.n * b.d = b.n * a.d
FLess(a, b) == a.n * b.d < b.n * a.d
FAdd(a, b) == Frac(a.n * b.d + b.n * a.d, a.d * b.d)
\* a - b, for b <= a
FSub(a, b) == Frac(a.n * b.d - b.n * a.d, a.d * b.d)
FMin(a, b) == IF FLess(b, a) THEN b ELSE a

Min(a, b) == IF b < a THEN b ELSE a

\* the floating point value with exact value x and error sign e
Float(x, e) == [n |-> x.n, d |-> x.d, e |-> e]

\* a < b and a == b on floating point values
FloatLess(a, b) == FLess(a, b) \/ (FEq(a, b) /\ a.e < b.e)
FloatEq(a, b) == FEq(a, b) /\ a.e = b.e

(***************************************************************************)
(* Program constants.  Signals are in hundredths.                          *)
(***************************************************************************)
Unit == 100           \* 1.0
HappyGate == 5        \* compound > 0.05
SadGate == -5         \* compound < -0.05
AngryGate == -30      \* compound < -0.3
MaxTextLength == 5000 \* len(text) > 5000

\* the denominator of a raw score: a weight in tenths times a signal in
\* hundredths, halved once ((polarity + 1) / 2)
RawDen == 20 * Unit

\* the keys of the scores dict, in insertion order
Emotions == <<"happy", "sad", "angry", "neutral", "surprise">>
EmotionNames == {Emotions[i] : i \in 1..Len(Emotions)}

(***************************************************************************)
(* The signals a sentiment source can return: compound and polarity in     *)
(* [-1, 1], the others in [0, 1].                                          *)
(***************************************************************************)
Compounds == {-100, -50, -31, -30, -29, -6, -5, 0, 5, 6, 80, 100}
Positives == {0, 30, 70, 100}
Negatives == {0, 50, 60, 100}
Neutrals == {0, 20, 30, 40, 100}
Polarities == {-100, -50, 0, 60, 100}
Subjectivities == {0, 20, 30, 50, 100}

SignalDomain ==
    [compound : Compounds, pos : Positives, neg : Negatives, neu : Neutrals,
     polarity : Polarities, subjectivity : Subjectivities]

(***************************************************************************)
(* EmotionAnalyzer._calculate_emotion_scores                               *)
(***************************************************************************)
\* RawScores with the gates made inclusive (>=, <=)
RawScores_inclusive_gates(sig) ==
    [happy |->
        IF sig.compound >= HappyGate
        THEN Min(RawDen, 14 * sig.pos + 3 * (sig.polarity + Unit))
        ELSE 0,
     sad |->
        IF sig.compound <= SadGate
        THEN Min(RawDen, 12 * sig.neg + 4 * (2 * Unit - (sig.polarity + Unit)))
        ELSE 0,
     angry |->
        IF sig.compound <= AngryGate
        THEN Min(RawDen, 16 * sig.neg + 4 * sig.subjectivity)
        ELSE 0,
     neutral |-> Min(RawDen, 14 * sig.neu + 6 * (Unit - sig.subjectivity)),
     surprise |-> Min(RawDen, 10 * sig.subjectivity)]

\* RawScores with the (1 - subjectivity) term of neutral left out
RawScores_neutral_fraction_only(sig) ==
    [happy |->
        IF sig.compound > HappyGate
        THEN Min(RawDen, 14 * sig.pos + 3 * (sig.polarity + Unit))
        ELSE 0,
     sad |->
        IF sig.compound < SadGate
        THEN Min(RawDen, 12 * sig.neg + 4 * (2 * Unit - (sig.polarity + Unit)))
        ELSE 0,
     angry |->
        IF sig.compound < AngryGate
        THEN Min(RawDen, 16 * sig.neg + 4 * sig.subjectivity)
        ELSE 0,
     neutral |-> Min(RawDen, 14 * sig.neu),
     surprise |-> Min(RawDen, 10 * sig.subjectivity)]

\* RawScores with the sign of the angry gate dropped (compound < 0.3)
RawScores_angry_gate_sign(sig) ==
    [happy |->
        IF sig.compound > HappyGate
        THEN Min(RawDen, 14 * sig.pos + 3 * (sig.polarity + Unit))
        ELSE 0,
     sad |->
        IF sig.compound < SadGate
        THEN Min(RawDen, 12 * sig.neg + 4 * (2 * Unit - (sig.polarity + Unit)))
        ELSE 0,
     angry |->
        IF sig.compound < -AngryGate
        THEN Min(RawDen, 16 * sig.neg + 4 * sig.subjectivity)
        ELSE 0,
     neutral |-> Min(RawDen, 14 * sig.neu + 6 * (Unit - sig.subjectivity)),
     surprise |-> Min(RawDen, 10 * sig.subjectivity)]

\* the scores dict before normalisation, in units of 1/RawDen
RawScores(sig) ==
    [happy |->
        IF sig.compound > HappyGate
        THEN Min(RawDen, 14 * sig.pos + 3 * (sig.polarity + Unit))
        ELSE 0,
     sad |->
        IF sig.compound < SadGate
        THEN Min(RawDen, 12 * sig.neg + 4 * (2 * Unit - (sig.polarity + Unit)))
        ELSE 0,
     angry |->
        IF sig.compound < AngryGate
        THEN Min(RawDen, 16 * sig.neg + 4 * sig.subjectivity)
        ELSE 0,
     neutral |-> Min(RawDen, 14 * sig.neu + 6 * (Unit - sig.subjectivity)),
     surprise |-> Min(RawDen, 10 * sig.subjectivity)]

\* sum(scores.values())
Total(r) == r.happy + r.sad + r.angry + r.neutral + r.surprise

\* Normalized without the division by the total
Normalized_not_divided(r) == [k \in EmotionNames |-> Frac(r[k], RawDen)]

\* the exact values of the scores returned (model.py, lines 103-111)
Normalized(r) ==
    IF Total(r) > 0
    THEN [k \in EmotionNames |-> Frac(r[k], Total(r))]
    ELSE [k \in EmotionNames |->
             IF k = "neutral" THEN Frac(1, 1) ELSE Frac(r[k], RawDen)]

\* the literal 0.7 of model.py, line 134
BoostThreshold == Float(Frac(7, 10), 0)

(***************************************************************************)
(* The floating point errors the scores x can carry.  0.0 / total is 0.0   *)
(* and v / v is 1.0 without error.  An error is recorded only where it     *)
(* decides a comparison the source makes: where the exact value equals     *)
(* that of another score or the boost threshold.                           *)
(***************************************************************************)
Decisive(x, k) ==
    /\ x[k].n # 0
    /\ x[k].n # x[k].d
    /\ \/ FEq(x[k], BoostThreshold)
       \/ \E j \in EmotionNames \ {k} : FEq(x[j], x[k])

ErrorSigns(x, k) == IF Decisive(x, k) THEN {-1, 0, 1} ELSE {0}

Errors(x) ==
    { [happy |-> h, sad |-> s, angry |-> a, neutral |-> n, surprise |-> u] :
         h \in ErrorSigns(x, "happy"), s \in ErrorSigns(x, "sad"),
         a \in ErrorSigns(x, "angry"), n \in ErrorSigns(x, "neutral"),
         u \in ErrorSigns(x, "surprise") }

\* the dicts _calculate_emotion_scores can return for the signals sig
calculate_emotion_scores(sig) ==
    LET x == Normalized(RawScores(sig))
    IN  { [k \in EmotionNames |-> Float(x[k], err[k])] : err \in Errors(x) }

(***************************************************************************)
(* max(emotion_scores, key=emotion_scores.get): the keys are visited in    *)
(* insertion order and the best so far is replaced only by a strictly      *)
(* greater score.                                                          *)
(***************************************************************************)
\* MaxKeyFrom with the best so far replaced by an equal score too (>=)
RECURSIVE MaxKeyFrom_last(_, _, _)
MaxKeyFrom_last(sc, i, best) ==
    IF i > Len(Emotions) THEN best
    ELSE MaxKeyFrom_last(sc, i + 1,
                         IF FloatLess(sc[Emotions[i]], sc[best]) THEN best
                         ELSE Emotions[i])

RECURSIVE MaxKeyFrom(_, _, _)
MaxKeyFrom(sc, i, best) ==
    IF i > Len(Emotions) THEN best
    ELSE MaxKeyFrom(sc, i + 1,
                    IF FloatLess(sc[best], sc[Emotions[i]]) THEN Emotions[i]
                    ELSE best)

primary_emotion(sc) == MaxKeyFrom(sc, 2, Emotions[1])

(***************************************************************************)
(* EmotionAnalyzer._calculate_confidence                                   *)
(***************************************************************************)
\* v inserted into the descending sequence s
RECURSIVE InsertDesc(_, _)
InsertDesc(v, s) ==
    IF s = <<>> THEN <<v>>
    ELSE IF FloatLess(Head(s), v) THEN <<v>> \o s
    ELSE <<Head(s)>> \o InsertDesc(v, Tail(s))

\* sorted(emotion_scores.values(), reverse=True)
RECURSIVE SortedDescFrom(_, _)
SortedDescFrom(sc, i) ==
    IF i > Len(Emotions) THEN <<>>
    ELSE InsertDesc(sc[Emotions[i]], SortedDescFrom(sc, i + 1))

SortedDesc(sc) == SortedDescFrom(sc, 1)

\* calculate_confidence with the boost applied at the threshold too (>=)
calculate_confidence_boost_at_threshold(sc) ==
    LET sorted_scores == SortedDesc(sc)
        max_score == sorted_scores[1]
        second_max == IF Len(sorted_scores) > 1 THEN sorted_scores[2] ELSE Frac(0, 1)
        diff == FSub(max_score, second_max)
    IN  IF ~FloatLess(max_score, BoostThreshold)
        THEN FMin(Frac(1, 1), FAdd(diff, Frac(2, 10)))
        ELSE diff

\* calculate_confidence with the boosted value not capped at 1.0
calculate_confidence_uncapped(sc) ==
    LET sorted_scores == SortedDesc(sc)
        max_score == sorted_scores[1]
        second_max == IF Len(sorted_scores) > 1 THEN sorted_scores[2] ELSE Frac(0, 1)
        diff == FSub(max_score, second_max)
    IN  IF FloatLess(BoostThreshold, max_score)
        THEN FAdd(diff, Frac(2, 10))
        ELSE diff

calculate_confidence(sc) ==
    LET sorted_scores == SortedDesc(sc)
        max_score == sorted_scores[1]
        second_max == IF Len(sorted_scores) > 1 THEN sorted_scores[2] ELSE Frac(0, 1)
        diff == FSub(max_score, second_max)
    IN  IF FloatLess(BoostThreshold, max_score)
        THEN FMin(Frac(1, 1), FAdd(diff, Frac(2, 10)))
        ELSE diff

(***************************************************************************)
(* round(x, 2), in hundredths.  The source rounds the binary floating      *)
(* point value of x; when the exact value lies halfway between two         *)
(* hundredths the floating point value may lie on either side.             *)
(***************************************************************************)
Round2(x) ==
    LET q == (100 * x.n) \div x.d
        r == (100 * x.n) % x.d
    IN  IF 2 * r < x.d THEN {q}
        ELSE IF 2 * r > x.d THEN {q + 1}
        ELSE {q, q + 1}

\* the dicts analyze can return for the scores sc (model.py, lines 39-50)
Results(sc) ==
    { [emotion |-> primary_emotion(sc),
       confidence |-> c,
       scores |-> [happy |-> h, sad |-> s, angry |-> a, neutral |-> n,
                   surprise |-> u]] :
         c \in Round2(calculate_confidence(sc)),
         h \in Round2(sc.happy), s \in Round2(sc.sad), a \in Round2(sc.angry),
         n \in Round2(sc.neutral), u \in Round2(sc.surprise) }

(***************************************************************************)
(* The normaliser applied once and then again to its own output.           *)
(***************************************************************************)
NoSignals == [compound |-> 0, pos |-> 0, neg |-> 0, neu |-> 0,
              polarity |-> 0, subjectivity |-> 0]

InitNormalizer ==
    /\ op = "input"
    /\ text \in ShortTexts
    /\ processed = <<>>
    /\ reprocessed = <<>>
    /\ request = "none"
    /\ response = "none"
    /\ called = FALSE
    /\ signals = NoSignals
    /\ raw = "none"
    /\ scores = "none"
    /\ confidence = "none"
    /\ result = "none"

Preprocess ==
    /\ op = "input"
    /\ op' = "preprocess_text"
    /\ processed' = preprocess_text(text)
    /\ UNCHANGED <<request, response, called, text, reprocessed, signals, raw,
                   scores, confidence, result>>

PreprocessAgain ==
    /\ op = "preprocess_text"
    /\ op' = "preprocess_text twice"
    /\ reprocessed' = preprocess_text(processed)
    /\ UNCHANGED <<request, response, called, text, processed, signals, raw,
                   scores, confidence, result>>

NextNormalizer == Preprocess \/ PreprocessAgain

SpecNormalizer == InitNormalizer /\ [][NextNormalizer]_vars

(***************************************************************************)
(* The scorer, the confidence estimator and the assembly of the result     *)
(* (analyze, from the sentiment scores on) applied to a signal.            *)
(***************************************************************************)
InitScorer ==
    /\ op = "input"
    /\ signals \in SignalDomain
    /\ text = <<>>
    /\ processed = <<>>
    /\ reprocessed = <<>>
    /\ request = "none"
    /\ response = "none"
    /\ called = FALSE
    /\ raw = "none"
    /\ scores = "none"
    /\ confidence = "none"
    /\ result = "none"

Score ==
    /\ op = "input"
    /\ op' = "analyze"
    /\ raw' = RawScores(signals)
    /\ scores' \in calculate_emotion_scores(signals)
    /\ confidence' = calculate_confidence(scores')
    /\ result' \in Results(scores')
    /\ UNCHANGED <<request, response, called, text, processed, reprocessed,
                   signals>>

NextScorer == Score

SpecScorer == InitScorer /\ [][NextScorer]_vars

(***************************************************************************)
(* The HTTP service (app.py).  A behaviour answers one request: the        *)
(* handlers keep no state between requests.                                *)
(***************************************************************************)
\* the character c, n times
Repeat(c, n) == [i \in 1..n |-> c]

\* texts at the length limit: one character short of it, at it and over it
LongTexts ==
    { Repeat(c, n) \o tail :
         c \in {"a", " "},
         n \in {MaxTextLength - 1, MaxTextLength, MaxTextLength + 1},
         tail \in { <<>>, <<"a">> } }

(***************************************************************************)
(* JSON values, as request.get_json() returns them: None, a bool, an int,  *)
(* a str, a list or a dict.  A dict is its set of keys and the value of    *)
(* its "text" key (JNull when it has none).                                *)
(***************************************************************************)
JNull == [type |-> "NoneType"]
JBool(b) == [type |-> "bool", val |-> b]
JInt(n) == [type |-> "int", val |-> n]
JStr(s) == [type |-> "str", val |-> s]
JList(l) == [type |-> "list", val |-> l]
JDict(ks, v) == [type |-> "dict", keys |-> ks, text |-> v]

TextKey == <<"t", "e", "x", "t">>

\* bool(v): the truth value of a Python object
Truthy(v) ==
    CASE v.type = "NoneType" -> FALSE
      [] v.type = "bool" -> v.val
      [] v.type = "int" -> v.val # 0
      [] v.type = "str" -> Len(v.val) > 0
      [] v.type = "list" -> Len(v.val) > 0
      [] v.type = "dict" -> v.keys # {}

\* 'text' in v, for a dict (a key), a str (a substring) or a list (an element)
Contains(v) ==
    CASE v.type = "dict" -> "text" \in v.keys
      [] v.type = "str" -> \E i \in 1..Len(v.val) : HasAt(v.val, i, TextKey)
      [] v.type = "list" ->
            \E i \in 1..Len(v.val) :
                v.val[i].type = "str" /\ v.val[i].val = TextKey

\* JSON values that are not a dict with a "text" key, and values of a "text"
\* key that are not a string
OtherValues ==
    { JNull, JBool(FALSE), JBool(TRUE), JInt(0), JInt(123),
      JList(<<>>), JList(<<JStr(<<"a">>)>>), JList(<<JStr(TextKey)>>),
      JDict({}, JNull), JDict({"other"}, JNull) }

\* the texts of the requests
BodyTexts == Concats(MaxBodyPieces) \cup LongTexts

\* request.get_json() raises (a body that is not JSON, a content type that is
\* not application/json): the exception, by its str()
GetJsonRaises ==
    { [type |-> "raises", message |-> m] :
         m \in { "400 Bad Request: The browser (or proxy) sent a request that this server could not understand.",
                 "415 Unsupported Media Type: Did not attempt to load JSON data because the request Content-Type was not 'application/json'." } }

\* what request.get_json() does: it raises, or returns a JSON value
Bodies ==
    GetJsonRaises
    \cup OtherValues
    \cup { JStr(<<>>), JStr(<<"a">>), JStr(TextKey \o <<" ", "a">>) }
    \cup { JDict({"text"}, v) : v \in OtherValues }
    \cup { JDict({"text"}, JStr(t)) : t \in BodyTexts }
    \cup { JDict({"text", "other"}, JStr(t)) : t \in Concats(1) }

Requests ==
    { [method |-> "GET", path |-> "/", data |-> JNull],
      [method |-> "GET", path |-> "/unknown", data |-> JNull] }
    \cup { [method |-> "POST", path |-> "/api/analyze", data |-> b] :
              b \in Bodies }

\* the signals the sentiment sources return in the service model
SourceSignals ==
    { NoSignals,
      [compound |-> 80, pos |-> 70, neg |-> 0, neu |-> 30, polarity |-> 60,
       subjectivity |-> 20],
      [compound |-> -50, pos |-> 0, neg |-> 60, neu |-> 40, polarity |-> -50,
       subjectivity |-> 50],
      [compound |-> 6, pos |-> 30, neg |-> 0, neu |-> 30, polarity |-> 60,
       subjectivity |-> 20] }

Init ==
    /\ op = "request"
    /\ request \in Requests
    /\ response = [status |-> 0]
    /\ called = FALSE
    /\ text = <<>>
    /\ processed = <<>>
    /\ reprocessed = <<>>
    /\ signals = NoSignals
    /\ raw = "none"
    /\ scores = "none"
    /\ confidence = "none"
    /\ result = "none"

BadRequest(message) == [status |-> 400, body |-> [error |-> message]]

\* the early return of analyze_emotion with a 400 response
Reject(message) ==
    /\ response' = BadRequest(message)
    /\ UNCHANGED <<called, text, processed, signals, raw, scores, confidence,
                   result>>

\* the response of the except clause of analyze_emotion for an exception
\* whose str() is message
ServerError(message) ==
    [status |-> 500,
     body |-> [error |-> "Internal server error", message |-> message]]

\* request.get_json() or a validation step raises: the except clause answers
\* 500 and analyzer.analyze is not reached
Raise(message) ==
    /\ response' = ServerError(message)
    /\ UNCHANGED <<called, text, processed, signals, raw, scores, confidence,
                   result>>

\* analyzer.analyze(t) returns: preprocess, sentiment scores, emotion scores,
\* primary emotion, confidence, result
analyze(t) ==
    /\ called' = TRUE
    /\ text' = t
    /\ processed' = preprocess_text(t)
    /\ signals' \in SourceSignals
    /\ raw' = RawScores(signals')
    /\ scores' \in calculate_emotion_scores(signals')
    /\ confidence' = calculate_confidence(scores')
    /\ result' \in Results(scores')
    /\ response' = [status |-> 200, body |-> result']

\* analyzer.analyze(t) raises in a sentiment source: the handler's except
\* clause answers 500
analyze_raises(t) ==
    /\ called' = TRUE
    /\ text' = t
    /\ processed' = preprocess_text(t)
    /\ response' = ServerError("str(e)")
    /\ UNCHANGED <<signals, raw, scores, confidence, result>>

Rejected(message) == [verdict |-> "reject", message |-> message]
Raised(message) == [verdict |-> "raise", message |-> message]
Accepted(t) == [verdict |-> "ok", text |-> t]

\* text.strip() on a value that is not a str: AttributeError
NoStrip(v) ==
    CASE v.type = "bool" -> "'bool' object has no attribute 'strip'"
      [] v.type = "int" -> "'int' object has no attribute 'strip'"
      [] v.type = "list" -> "'list' object has no attribute 'strip'"
      [] v.type = "dict" -> "'dict' object has no attribute 'strip'"

\* the checks on text = data['text'], in order
TextValidation(v) ==
    IF ~Truthy(v)
    THEN Rejected("Text cannot be empty")
    ELSE IF v.type # "str"
    THEN Raised(NoStrip(v))
    ELSE IF Len(Strip(v.val)) = 0
    THEN Rejected("Text cannot be empty")
    ELSE IF Len(v.val) > MaxTextLength
    THEN Rejected("Text too long. Maximum 5000 characters.")
    ELSE Accepted(v.val)

\* the statements of analyze_emotion before analyzer.analyze, in order, on
\* what request.get_json() did: the 400 of the first check that fails, the
\* exception of the first statement that raises, or the text to analyse
Validation(data) ==
    IF data.type = "raises"
    THEN Raised(data.message)
    ELSE IF ~Truthy(data)
    THEN Rejected("Missing text field in request")
    ELSE IF data.type = "bool"
    THEN Raised("argument of type 'bool' is not iterable")
    ELSE IF data.type = "int"
    THEN Raised("argument of type 'int' is not iterable")
    ELSE IF ~Contains(data)
    THEN Rejected("Missing text field in request")
    ELSE IF data.type = "str"
    THEN Raised("string indices must be integers, not 'str'")
    ELSE IF data.type = "list"
    THEN Raised("list indices must be integers or slices, not str")
    ELSE TextValidation(data.text)

\* POST /api/analyze
analyze_emotion ==
    /\ op = "request"
    /\ request.method = "POST"
    /\ request.path = "/api/analyze"
    /\ op' = "analyze_emotion"
    /\ UNCHANGED <<request, reprocessed>>
    /\ LET v == Validation(request.data)
       IN  IF v.verdict = "reject" THEN Reject(v.message)
           ELSE IF v.verdict = "raise" THEN Raise(v.message)
           ELSE \/ analyze(v.text)
                \/ analyze_raises(v.text)

\* GET /
home ==
    /\ op = "request"
    /\ request.method = "GET"
    /\ request.path = "/"
    /\ op' = "home"
    /\ response' = [status |-> 200,
                    body |-> [status |-> "running",
                              message |-> "BHAVNA Emotion Analysis API",
                              version |-> "1.0.0"]]
    /\ UNCHANGED <<request, called, text, processed, reprocessed, signals, raw,
                   scores, confidence, result>>

\* the 404 error handler
not_found ==
    /\ op = "request"
    /\ request.path \notin {"/", "/api/analyze"}
    /\ op' = "not_found"
    /\ response' = [status |-> 404, body |-> [error |-> "Endpoint not found"]]
    /\ UNCHANGED <<request, called, text, processed, reprocessed, signals, raw,
                   scores, confidence, result>>

\* the 500 error handler: Flask calls it for an exception that escapes a view.
\* analyze_emotion catches every Exception and home raises none, so no
\* request is answered by it and Next has no action for it.
internal_error == [status |-> 500, body |-> [error |-> "Internal server error"]]

Next == analyze_emotion \/ home \/ not_found

Spec == Init /\ [][Next]_vars

(***************************************************************************)
(* Properties.                                                             *)
(***************************************************************************)
Scored == op = "analyze"

\* the sum of the five scores, as an exact fraction
SumOfScores(sc) ==
    FAdd(FAdd(FAdd(FAdd(sc.happy, sc.sad), sc.angry), sc.neutral), sc.surprise)

IsZero(x) == x.n = 0
IsOne(x) == x.n = x.d

\* C1: for every valid signal, _calculate_emotion_scores returns exactly the
\* five entries happy, sad, angry, neutral and surprise, each value is
\* non-negative and at most 1, and the five values sum to 1.0.
C1_ScoresAreADistribution ==
    Scored =>
        /\ DOMAIN scores = {"happy", "sad", "angry", "neutral", "surprise"}
        /\ \A k \in DOMAIN scores :
              scores[k].d > 0 /\ scores[k].n >= 0 /\ scores[k].n <= scores[k].d
        /\ IsOne(SumOfScores(scores))

\* a signal for which sad, angry, neutral and surprise are all non-zero
C1_Witness ==
    /\ Scored
    /\ scores.sad.n > 0 /\ scores.angry.n > 0
    /\ scores.neutral.n > 0 /\ scores.surprise.n > 0

\* C2: the scores before normalisation are the fixed formulas with strict
\* gates: happy is 0 when compound <= 0.05 and otherwise
\* min(1, pos*0.7 + ((polarity+1)/2)*0.3); sad is 0 when compound >= -0.05
\* and otherwise min(1, neg*0.6 + (1-(polarity+1)/2)*0.4); angry is 0 when
\* compound >= -0.3 and otherwise min(1, neg*0.8 + subjectivity*0.2);
\* neutral = min(1, neu*0.7 + (1-subjectivity)*0.3) and
\* surprise = min(1, subjectivity*0.5) whatever compound is.  Both sides are
\* multiplied by 100 * RawDen: a signal is in hundredths (x/100), a weight
\* 0.7 is 70/100.
C2_RawScoresFollowFormulas ==
    Scored =>
        /\ signals.compound <= 5 => raw.happy = 0
        /\ signals.compound > 5 =>
              100 * raw.happy =
                  Min(100 * RawDen,
                      20 * 70 * signals.pos + 10 * 30 * (signals.polarity + 100))
        /\ signals.compound >= -5 => raw.sad = 0
        /\ signals.compound < -5 =>
              100 * raw.sad =
                  Min(100 * RawDen,
                      20 * 60 * signals.neg
                          + 10 * 40 * (200 - (signals.polarity + 100)))
        /\ signals.compound >= -30 => raw.angry = 0
        /\ signals.compound < -30 =>
              100 * raw.angry =
                  Min(100 * RawDen,
                      20 * 80 * signals.neg + 20 * 20 * signals.subjectivity)
        /\ 100 * raw.neutral =
              Min(100 * RawDen,
                  20 * 70 * signals.neu + 20 * 30 * (100 - signals.subjectivity))
        /\ 100 * raw.surprise = Min(100 * RawDen, 20 * 50 * signals.subjectivity)

\* compound exactly -0.3 with a negative fraction: sad is scored, angry is not
C2_Witness ==
    /\ Scored
    /\ signals.compound = -30
    /\ signals.neg > 0
    /\ raw.sad > 0
    /\ raw.angry = 0

\* no gate open, subjectivity 0 and neutral fraction 0
C3_Case ==
    /\ Scored
    /\ signals.compound >= -5 /\ signals.compound <= 5
    /\ signals.subjectivity = 0
    /\ signals.neu = 0

\* C3 as stated: in that case both always-on terms (neutral and surprise)
\* evaluate to 0, so the sum before normalisation is 0 and the zero-sum
\* branch sets neutral to 1.0 and every other score to 0.
C3_AsStated ==
    C3_Case =>
        /\ raw.neutral = 0 /\ raw.surprise = 0
        /\ Total(raw) = 0
        /\ IsOne(scores.neutral)
        /\ \A k \in EmotionNames \ {"neutral"} : IsZero(scores[k])

\* C3 amended: in that case surprise evaluates to 0 and neutral to 0.3 (its
\* (1 - subjectivity) * 0.3 term), so the sum before normalisation is 0.3,
\* not 0; the scores are divided by it, which makes neutral 1.0 and every
\* other score 0.
C3_NeutralTermKeepsSumPositive ==
    C3_Case =>
        /\ raw.surprise = 0
        /\ 10 * raw.neutral = 3 * RawDen
        /\ Total(raw) = raw.neutral
        /\ Total(raw) > 0
        /\ IsOne(scores.neutral)
        /\ \A k \in EmotionNames \ {"neutral"} : IsZero(scores[k])

C3_Witness == C3_Case /\ signals.compound = 0 /\ signals.pos = 0 /\ signals.neg = 0

\* C4: for the zero signal, and for any valid signal with compound in
\* [-0.05, 0.05] and subjectivity 0, the scores returned are neutral = 1.0
\* and 0 for the others, the emotion reported is "neutral" and the
\* confidence is 1.0, unrounded and rounded.
C4_NeutralSignal ==
    (Scored /\ signals.compound >= -5 /\ signals.compound <= 5
        /\ signals.subjectivity = 0) =>
        /\ IsOne(scores.neutral)
        /\ \A k \in EmotionNames \ {"neutral"} : IsZero(scores[k])
        /\ result.emotion = "neutral"
        /\ IsOne(confidence)
        /\ result.confidence = 100
        /\ result.scores =
              [happy |-> 0, sad |-> 0, angry |-> 0, neutral |-> 100,
               surprise |-> 0]

\* the zero signal, analysed
C4_Witness == Scored /\ signals = NoSignals /\ result.emotion = "neutral"

\* a key of the largest score and a key of the second score in descending
\* order
TopKey(sc) ==
    CHOOSE k \in EmotionNames : \A j \in EmotionNames : ~FloatLess(sc[k], sc[j])

SecondKey(sc) ==
    CHOOSE k \in EmotionNames \ {TopKey(sc)} :
        \A j \in EmotionNames \ {TopKey(sc)} : ~FloatLess(sc[k], sc[j])

Gap(sc) == FSub(sc[TopKey(sc)], sc[SecondKey(sc)])

\* C5: for the scores the scorer returns, _calculate_confidence returns
\* max1 - max2, increased by 0.2 and capped at 1.0 exactly when max1 > 0.7
\* (not at max1 = 0.7), and the result is in [0, 1].
C5_ConfidenceIsGapWithBoost ==
    Scored =>
        /\ FloatLess(BoostThreshold, scores[TopKey(scores)]) =>
              FEq(confidence, FMin(Frac(1, 1), FAdd(Gap(scores), Frac(1, 5))))
        /\ ~FloatLess(BoostThreshold, scores[TopKey(scores)]) =>
              FEq(confidence, Gap(scores))
        /\ confidence.d > 0 /\ confidence.n >= 0 /\ confidence.n <= confidence.d

\* the largest score is exactly 0.7 and the confidence is the bare gap
C5_Witness ==
    /\ Scored
    /\ FloatEq(scores.neutral, BoostThreshold)
    /\ TopKey(scores) = "neutral"
    /\ FEq(confidence, Frac(4, 10))

\* the position of the key k in the insertion order
KeyIndex(k) == CHOOSE i \in 1..Len(Emotions) : Emotions[i] = k

\* C6: the emotion reported is a key whose score is the maximum of the
\* unrounded scores, and among the keys that share the maximum it is the
\* first in the order happy, sad, angry, neutral, surprise.
C6_EmotionIsFirstMaximum ==
    Scored =>
        /\ result.emotion \in EmotionNames
        /\ \A k \in EmotionNames :
              ~FloatLess(scores[result.emotion], scores[k])
        /\ \A i \in 1..(KeyIndex(result.emotion) - 1) :
              FloatLess(scores[Emotions[i]], scores[result.emotion])

\* happy and neutral share the maximum and happy is reported
C6_Witness ==
    /\ Scored
    /\ FloatEq(scores.happy, scores.neutral)
    /\ \A k \in EmotionNames : ~FloatLess(scores.happy, scores[k])
    /\ result.emotion = "happy"

Answered == op = "analyze_emotion"

AllSpace(t) == \A i \in 1..Len(t) : IsSpace(t[i])

\* the request body is a JSON object with a "text" key
HasTextKey == request.data.type = "dict" /\ "text" \in request.data.keys

\* the "text" of the request is empty: a string that is empty or all
\* whitespace, or a value that is not a string and is null, false, 0 or empty
EmptyText ==
    IF request.data.text.type = "str"
    THEN AllSpace(request.data.text.val)
    ELSE ~Truthy(request.data.text)

TooLong ==
    request.data.text.type = "str" /\ Len(request.data.text.val) > 5000

\* C7: a POST /api/analyze request gets one response, decided by the first
\* failing check: body missing or without a text key -> 400 "Missing text
\* field in request"; text empty or all whitespace -> 400 "Text cannot be
\* empty"; more than 5000 characters -> 400 "Text too long. Maximum 5000
\* characters."  The analyzer is invoked only when all three pass, and then
\* the response is 200 with the result, or 500 "Internal server error" with
\* the failure message if the pipeline raises.
C7_ResponseByFirstFailingCheck ==
    Answered =>
        IF ~HasTextKey
        THEN /\ response = BadRequest("Missing text field in request")
             /\ ~called
        ELSE IF EmptyText
        THEN /\ response = BadRequest("Text cannot be empty")
             /\ ~called
        ELSE IF TooLong
        THEN /\ response = BadRequest("Text too long. Maximum 5000 characters.")
             /\ ~called
        ELSE /\ called
             /\ \/ response = [status |-> 200, body |-> result]
                \/ /\ response.status = 500
                   /\ response.body.error = "Internal server error"

\* C8: when the request passes validation, the normalised text handed to the
\* sentiment sources and the scorer is not empty.
C8_NormalizedTextNotEmpty ==
    (Answered /\ called) => Len(processed) > 0

\* C9: preprocess_text(preprocess_text(x)) = preprocess_text(x).
C9_PreprocessIdempotent ==
    op = "preprocess_text twice" => reprocessed = processed

\* a text with an "@" and a URL, part of which survives the first pass
C9_Witness ==
    /\ op = "preprocess_text twice"
    /\ \E i \in 1..Len(text) : UrlAt(Lower(text), i)
    /\ \E i \in 1..Len(text) : text[i] = "@"
    /\ Len(processed) > 0
    /\ Len(processed) < Len(text)

\* C10: happy excludes sad and angry, and angry is non-zero only when the
\* sad gate (compound < -0.05) is open too; before and after normalisation.
C10_GatedEmotionsExclusive ==
    Scored =>
        /\ raw.happy # 0 => raw.sad = 0 /\ raw.angry = 0
        /\ (raw.sad # 0 \/ raw.angry # 0) => raw.happy = 0
        /\ raw.angry # 0 => signals.compound < -5
        /\ ~IsZero(scores.happy) => IsZero(scores.sad) /\ IsZero(scores.angry)
        /\ (~IsZero(scores.sad) \/ ~IsZero(scores.angry)) => IsZero(scores.happy)
        /\ ~IsZero(scores.angry) => signals.compound < -5

\* sad and angry both scored, happy not
C10_Witness ==
    /\ Scored
    /\ raw.sad > 0 /\ raw.angry > 0 /\ raw.happy = 0
    /\ ~IsZero(scores.sad) /\ ~IsZero(scores.angry)

====
